---------------------------- MODULE Spec2Model ----------------------------
(***************************************************************************)
(* CC1101 bridge (flipper_app): the line reassembler of                    *)
(* cc1101_bridge_uart.c, the command parser and response encoder of        *)
(* cc1101_bridge_protocol.c, the register backend of                       *)
(* cc1101_bridge_cc1101.c and the command loop of cc1101_bridge_app.c.     *)
(*                                                                         *)
(* Bytes and characters are their ASCII codes (0..255); a C string is the  *)
(* sequence of its characters, its terminating NUL left implicit except    *)
(* in the parser, which works on the memory image of the line.             *)
(* Text the program produces (responses, status text) is a TLA+ string.    *)
(***************************************************************************)
EXTENDS Integers, Sequences, FiniteSets, TLC

VARIABLES
    \* struct UartContext (cc1101_bridge_uart.c:14-19)
    line_buffer,        \* the live part line_buffer[0 .. line_pos-1]
    line_pos,
    \* the uart_receive_line call in progress
    pc,                 \* "idle" | "poll" | "loop" | "process" | "stopped"
    timeout_ms,         \* the call's timeout_ms argument
    waited,             \* furi_get_tick() - start_time at the top of the loop
    line,               \* the caller's FuriString* line
    tail,               \* the bytes earlier, longer lines left in the
                        \* string's buffer behind the line's NUL
    ret,                \* the last call's return value: "none" | "true" | "false"
    \* observation of the transport and of the deliveries
    fed,                \* every byte furi_hal_cdc_receive has handed over, in order
    delivered,          \* the lines delivered so far (each as handed to the caller)
    n_bursts,           \* number of non-empty bursts received
    \* struct App (cc1101_bridge_app.c:19-30) and struct Cc1101Context
    running,
    commands_processed,
    status_text,
    initialized,
    \* the last app_process_command call
    beyond,             \* the bytes that followed the string's buffer
    parse_result,       \* what protocol_parse_command returned, with cmd
    response,           \* the FuriString response
    tx,                 \* the payloads of its furi_hal_cdc_send calls, in order
    be,                 \* its calls of the cc1101_* backend, in order
    hw,                 \* the furi_hal_subghz_* calls made through them
    n_sent,             \* number of uart_send_response calls so far
    \* the build
    long_bits           \* the width of `long`, which atoi's result depends on

uartVars == <<line_buffer, line_pos, pc, timeout_ms, waited, line, tail, ret,
              fed, delivered, n_bursts>>

appVars == <<running, commands_processed, status_text, initialized>>

callVars == <<beyond, parse_result, response, tx, be, hw, n_sent>>

vars == <<uartVars, appVars, callVars, long_bits>>

-----------------------------------------------------------------------------
(* Characters *)

NUL == 0
LF  == 10
CR  == 13

Byte == 0 .. 255

\* n copies of the byte c
Fill(c, n) == [i \in 1 .. n |-> c]

\* `s` is a prefix of `t`
IsPrefix(s, t) == Len(s) <= Len(t) /\ SubSeq(t, 1, Len(s)) = s

-----------------------------------------------------------------------------
(* Line reassembler: cc1101_bridge_uart.c *)

RX_BUFFER_SIZE   == 512
LINE_BUFFER_SIZE == 1024
POLL_DELAY_MS    == 10

\* furi_string_set_str(line, s): the C string that starts at s[1], i.e. the
\* bytes before the first NUL of the buffer contents `s` (a NUL is written
\* right after them at line_buffer[line_pos]).
CStr(s) ==
    IF \E i \in 1 .. Len(s) : s[i] = NUL
    THEN LET z == CHOOSE i \in 1 .. Len(s) :
                      s[i] = NUL /\ \A j \in 1 .. (i - 1) : s[j] # NUL
         IN SubSeq(s, 1, z - 1)
    ELSE s

\* furi_string_set_str(line, s) copies the C string and its NUL to the start
\* of the string's buffer, which is kept (it only ever grows): the bytes
\* that an earlier, longer content and its NUL occupy behind the new NUL
\* stay where they are.  What is behind the NUL after str is set, for a
\* buffer that held old, its NUL and rest.
StringSetStr(old, rest, str) ==
    SubSeq(old \o <<NUL>> \o rest, Len(str) + 2, Len(old) + 1 + Len(rest))

\* The state of the for loop of uart_receive_line: the accumulator, whether
\* the function has returned true, and then the string it delivered.
LoopState(buf, pos, got, str) ==
    [buf |-> buf, pos |-> pos, got |-> got, str |-> str]

\* One iteration of the for loop (uart.c:49-67) on the byte c.  Once the
\* function has returned (st.got) the remaining bytes of rx_buffer are never
\* looked at: the loop index is a local and the next call refills rx_buffer.
UartByte(st, c) ==
    IF st.got THEN st
    ELSE IF c = LF \/ c = CR
    THEN IF st.pos > 0
         THEN LoopState(<<>>, 0, TRUE, CStr(st.buf))
         ELSE st
    ELSE IF st.pos < LINE_BUFFER_SIZE - 1
    THEN LoopState(Append(st.buf, c), st.pos + 1, FALSE, <<>>)
    ELSE LoopState(<<>>, 0, FALSE, <<>>)

\* The for loop over rx_buffer[lo-1 .. hi-1], in index order (the fold of
\* UartByte, split in halves to keep the evaluation shallow); it is left as
\* soon as the function has returned.
RECURSIVE UartBytes(_, _, _, _)
UartBytes(st, rx, lo, hi) ==
    IF st.got \/ lo > hi THEN st
    ELSE IF lo = hi THEN UartByte(st, rx[lo])
    ELSE LET mid == (lo + hi) \div 2
         IN UartBytes(UartBytes(st, rx, lo, mid), rx, mid + 1, hi)

\* uart_receive_line is called with timeout_ms = t; start_time is read.
UartEnter(t, from) ==
    /\ pc = from
    /\ pc' = "poll"
    /\ timeout_ms' = t
    /\ waited' = 0
    /\ ret' = "none"
    /\ UNCHANGED <<line_buffer, line_pos, line, tail, fed, delivered, n_bursts>>
    /\ UNCHANGED <<appVars, callVars, long_bits>>

\* One iteration of the while loop of uart_receive_line (uart.c:38-71):
\* the timeout check, one furi_hal_cdc_receive that yields the burst `rx`
\* (empty: nothing available), the for loop, the delay.  onLine and
\* onTimeout are where the caller continues after true and after false.
UartPoll(rx, onLine, onTimeout) ==
    /\ pc = "poll"
    /\ Len(rx) <= RX_BUFFER_SIZE
    /\ UNCHANGED <<appVars, callVars, long_bits>>
    /\ IF waited > timeout_ms
       THEN /\ pc' = onTimeout
            /\ ret' = "false"
            /\ UNCHANGED <<line_buffer, line_pos, timeout_ms, waited, line,
                           tail, fed, delivered, n_bursts>>
       ELSE LET st == UartBytes(LoopState(line_buffer, line_pos, FALSE, <<>>),
                                rx, 1, Len(rx))
            IN /\ line_buffer' = st.buf
               /\ line_pos' = st.pos
               /\ fed' = fed \o rx
               /\ n_bursts' = IF Len(rx) > 0 THEN n_bursts + 1 ELSE n_bursts
               /\ IF st.got
                  THEN /\ line' = st.str
                       /\ tail' = StringSetStr(line, tail, st.str)
                       /\ delivered' = Append(delivered, st.str)
                       /\ ret' = "true"
                       /\ pc' = onLine
                       /\ UNCHANGED waited
                  ELSE /\ waited' = waited + POLL_DELAY_MS
                       /\ UNCHANGED <<line, tail, delivered, ret, pc>>
               /\ UNCHANGED timeout_ms

\* uart_init (uart.c:21-30) and a fresh FuriString
UartInit ==
    /\ line_buffer = <<>>
    /\ line_pos = 0
    /\ timeout_ms = 0
    /\ waited = 0
    /\ line = <<>>
    /\ tail = <<>>
    /\ ret = "none"
    /\ fed = <<>>
    /\ delivered = <<>>
    /\ n_bursts = 0

-----------------------------------------------------------------------------
(* Command parser: cc1101_bridge_protocol.c                                 *)
(*                                                                          *)
(* The parser reads the memory image `mem` of its argument: the characters  *)
(* of the line, the terminating NUL, and whatever bytes follow it.  An      *)
(* index into mem is a char pointer (index 1 is json[0]).                   *)

MAX_BULK_REGISTERS == 47
PA_TABLE_LEN       == 8

KEY_CMD       == <<34, 99, 109, 100, 34>>                               \* "cmd"
KEY_ADDR      == <<34, 97, 100, 100, 114, 34>>                          \* "addr"
KEY_VALUE     == <<34, 118, 97, 108, 117, 101, 34>>                     \* "value"
KEY_REGISTERS == <<34, 114, 101, 103, 105, 115, 116, 101, 114, 115, 34>>
                                                                    \* "registers"
KEY_PA_TABLE  == <<34, 112, 97, 95, 116, 97, 98, 108, 101, 34>>     \* "pa_table"
STR_WRITE_REGISTER ==
    <<119, 114, 105, 116, 101, 95, 114, 101, 103, 105, 115, 116, 101, 114>>
STR_WRITE_BULK    == <<119, 114, 105, 116, 101, 95, 98, 117, 108, 107>>
STR_READ_REGISTER ==
    <<114, 101, 97, 100, 95, 114, 101, 103, 105, 115, 116, 101, 114>>
STR_PING          == <<112, 105, 110, 103>>

Digits     == 48 .. 57                       \* isdigit
Whitespace == {32, 9, 10, 11, 12, 13}        \* isspace

\* *p for the pointer p; beyond the modelled memory the model reads NUL
At(mem, p) == IF p \in 1 .. Len(mem) THEN mem[p] ELSE NUL

\* The first pointer q >= p with *q in `stop`, found by stepping q++ from p.
\* Every caller stops at NUL.
ScanTo(mem, p, stop) ==
    IF \E i \in p .. Len(mem) : mem[i] \in stop
    THEN CHOOSE i \in p .. Len(mem) :
             mem[i] \in stop /\ \A j \in p .. (i - 1) : mem[j] \notin stop
    ELSE IF p > Len(mem) THEN p ELSE Len(mem) + 1

\* strncmp(p, lit, Len(lit)) == 0
StrNCmpEq(mem, p, lit) ==
    \A k \in 1 .. Len(lit) : At(mem, p + k - 1) = lit[k]

\* strstr(json, needle): the first match inside the C string, 0 for NULL
StrStr(mem, needle) ==
    LET z == ScanTo(mem, 1, {NUL})
        hits == {i \in 1 .. z : i + Len(needle) - 1 < z /\ StrNCmpEq(mem, i, needle)}
    IN IF hits = {} THEN 0
       ELSE CHOOSE i \in hits : \A j \in hits : i <= j

\* strchr(p, c) for a pointer p into the C string, 0 for NULL
StrChr(mem, p, c) ==
    LET q == ScanTo(mem, p, {NUL, c})
    IN IF At(mem, q) = c THEN q ELSE 0

\* The widths of `long` in the builds of the program: 32 bits on the
\* target (ILP32), 64 bits on an LP64 host.  atoi is (int)strtol(p, 0, 10);
\* for a number an int cannot hold its result is not defined by the
\* language and differs between the two.
LongBits == {32, 64}

\* LONG_MAX (neg = FALSE) and -LONG_MIN (neg = TRUE) for a long of lb bits,
\* as decimal digits
LongLimit(lb, neg) ==
    IF lb = 32
    THEN <<2, 1, 4, 7, 4, 8, 3, 6, 4, IF neg THEN 8 ELSE 7>>
    ELSE <<9, 2, 2, 3, 3, 7, 2, 0, 3, 6, 8, 5, 4, 7, 7, 5, 8, 0,
           IF neg THEN 8 ELSE 7>>

\* The digit run mem[lo .. hi], which has no leading zero, is a number
\* greater than the one written `limit`
DigitsExceed(mem, lo, hi, limit) ==
    LET n == hi - lo + 1
    IN \/ n > Len(limit)
       \/ /\ n = Len(limit)
          /\ \E k \in 1 .. n :
                /\ mem[lo + k - 1] - 48 > limit[k]
                /\ \A j \in 1 .. (k - 1) : mem[lo + j - 1] - 48 = limit[j]

\* A 32-bit word is the pair <<high half, low half>> of its 16-bit halves.
\* The word 10 * w + d modulo 2^32
Low32Step(w, d) ==
    <<(10 * w[1] + (10 * w[2] + d) \div 65536) % 65536,
      (10 * w[2] + d) % 65536>>

\* The value of the digit run mem[lo .. hi] modulo 2^32
RECURSIVE DigitsValue(_, _, _)
DigitsValue(mem, lo, hi) ==
    IF hi < lo THEN <<0, 0>>
    ELSE CHOOSE w \in {Low32Step(v, mem[hi] - 48) :
                          v \in {DigitsValue(mem, lo, hi - 1)}} : TRUE

\* the word -w modulo 2^32
Neg32(w) ==
    IF w[2] = 0 THEN <<(65536 - w[1]) % 65536, 0>>
    ELSE <<65535 - w[1], 65536 - w[2]>>

\* the int a 32-bit word is (two's complement)
ToInt(w) ==
    IF w[1] >= 32768 THEN (w[1] - 65536) * 65536 + w[2]
    ELSE w[1] * 65536 + w[2]

\* atoi(p) in the build whose long has lb bits: leading white space, an
\* optional sign, then digits up to the first non-digit; 0 when there is
\* no digit.  strtol yields the number, or LONG_MAX / LONG_MIN when a long
\* cannot hold it, and the conversion to int keeps the low 32 bits.
Atoi(mem, p, lb) ==
    LET s == ScanTo(mem, p, (0 .. 255) \ Whitespace)
        neg == At(mem, s) = 45
        d == IF At(mem, s) \in {45, 43} THEN s + 1 ELSE s
        e == ScanTo(mem, d, (0 .. 255) \ Digits)
        z == ScanTo(mem, d, (0 .. 255) \ {48})       \* leading zeros skipped
    IN IF DigitsExceed(mem, z, e - 1, LongLimit(lb, neg))
       THEN IF lb = 32
            THEN IF neg THEN (0 - 2147483647) - 1 ELSE 2147483647
            ELSE IF neg THEN 0 ELSE 0 - 1
       ELSE IF neg THEN ToInt(Neg32(DigitsValue(mem, z, e - 1)))
       ELSE ToInt(DigitsValue(mem, z, e - 1))

\* a conversion of an int to uint8_t that saturates
U8Saturating(n) == IF n > 255 THEN 255 ELSE IF n < 0 THEN 0 ELSE n

\* the conversion of an int to uint8_t
U8(n) == n % 256

\* Command after memset and cmd->type = CMD_UNKNOWN (protocol.c:22-23).
\* bulk_regs and pa_table hold the first bulk_count and pa_table_count
\* entries of the arrays; the entries beyond them are 0.
EmptyCommand ==
    [type |-> "CMD_UNKNOWN", addr |-> 0, value |-> 0,
     bulk_regs |-> <<>>, bulk_count |-> 0,
     pa_table |-> <<>>, pa_table_count |-> 0]

\* the integer field under `key`: strstr(json, key), strchr(.., ':'),
\* atoi(.. + 1); the field stays 0 when the key or the ':' is missing
IntField(mem, key, lb) ==
    LET k == StrStr(mem, key)
        c == IF k = 0 THEN 0 ELSE StrChr(mem, k, 58)
    IN IF c = 0 THEN 0 ELSE U8(Atoi(mem, c + 1, lb))

\* the guard of the registers loop with <= for <
RegsLoopGuardOffByOne(c, count) ==
    c # NUL /\ c # 125 /\ count <= MAX_BULK_REGISTERS

\* the guard of the registers loop (protocol.c:70)
RegsLoopGuard(c, count) ==
    c # NUL /\ c # 125 /\ count < MAX_BULK_REGISTERS

\* The registers loop (protocol.c:70-86) from the pointer p.  It steps p++
\* over every character that is not '"'; at a '"' it reads the address
\* after it, steps to the next ':' and reads the value after that.  Yields
\* the pairs and the pointer the loop ends at.
RECURSIVE ScanRegs(_, _, _, _)
ScanRegs(mem, p, regs, lb) ==
    LET q == IF RegsLoopGuard(At(mem, p), Len(regs))
             THEN ScanTo(mem, p, {NUL, 125, 34})
             ELSE p
    IN IF ~RegsLoopGuard(At(mem, q), Len(regs))
       THEN [regs |-> regs, p |-> q]
       ELSE LET addr == U8(Atoi(mem, q + 1, lb))
                c == ScanTo(mem, q + 1, {NUL, 58})
            IN IF At(mem, c) = 58
               THEN ScanRegs(mem, c + 2,
                             Append(regs, [addr |-> addr,
                                           value |-> U8(Atoi(mem, c + 1, lb))]),
                             lb)
               ELSE ScanRegs(mem, c + 1, regs, lb)

\* the guard of the pa_table loop (protocol.c:97)
PaLoopGuard(c, count) ==
    c # NUL /\ c # 93 /\ count < PA_TABLE_LEN

\* The pa_table loop (protocol.c:97-104) from the pointer p: every digit run
\* is an entry; after a run the loop steps over the character that ends it.
RECURSIVE ScanPa(_, _, _, _)
ScanPa(mem, p, pa, lb) ==
    LET q == IF PaLoopGuard(At(mem, p), Len(pa))
             THEN ScanTo(mem, p, {NUL, 93} \cup Digits)
             ELSE p
    IN IF ~PaLoopGuard(At(mem, q), Len(pa))
       THEN [pa |-> pa, p |-> q]
       ELSE LET e == ScanTo(mem, q, (0 .. 255) \ Digits)
            IN ScanPa(mem, e + 1, Append(pa, U8(Atoi(mem, q, lb))), lb)

\* the registers object of a write_bulk line (protocol.c:64-88)
ParseRegisters(mem, lb) ==
    LET k == StrStr(mem, KEY_REGISTERS)
        o == IF k = 0 THEN 0 ELSE StrChr(mem, k, 123)
    IN IF o = 0 THEN [regs |-> <<>>, p |-> 0]
       ELSE ScanRegs(mem, o + 1, <<>>, lb)

\* the pa_table array of a write_bulk line (protocol.c:91-106)
ParsePaTable(mem, lb) ==
    LET k == StrStr(mem, KEY_PA_TABLE)
        o == IF k = 0 THEN 0 ELSE StrChr(mem, k, 91)
    IN IF o = 0 THEN [pa |-> <<>>, p |-> 0]
       ELSE ScanPa(mem, o + 1, <<>>, lb)

\* the Command of a write_bulk line: r from the registers loop, a from the
\* pa_table loop
BulkFields(r, a) ==
    [ok |-> TRUE,
     cmd |-> [EmptyCommand EXCEPT !.type = "CMD_WRITE_BULK",
                                  !.bulk_regs = r.regs,
                                  !.bulk_count = Len(r.regs),
                                  !.pa_table = a.pa,
                                  !.pa_table_count = Len(a.pa)],
     regs_end |-> r.p, pa_end |-> a.p]

\* The command type with the skip loop of protocol.c:35 stepping over
\* spaces only
CommandTypeSpacesOnly(mem) ==
    LET k == StrStr(mem, KEY_CMD)
        c == IF k = 0 THEN 0 ELSE StrChr(mem, k, 58)
        v == ScanTo(mem, c + 1, (0 .. 255) \ {32})
    IN IF c = 0 THEN "CMD_UNKNOWN"
       ELSE IF StrNCmpEq(mem, v, STR_WRITE_REGISTER) THEN "CMD_WRITE_REGISTER"
       ELSE IF StrNCmpEq(mem, v, STR_WRITE_BULK) THEN "CMD_WRITE_BULK"
       ELSE IF StrNCmpEq(mem, v, STR_READ_REGISTER) THEN "CMD_READ_REGISTER"
       ELSE IF StrNCmpEq(mem, v, STR_PING) THEN "CMD_PING"
       ELSE "CMD_UNKNOWN"

\* The command type (protocol.c:26-39, 60, 108, 119): strstr for "cmd",
\* strchr for ':', skip spaces and quotes, then the strncmp chain.
CommandType(mem) ==
    LET k == StrStr(mem, KEY_CMD)
        c == IF k = 0 THEN 0 ELSE StrChr(mem, k, 58)
        v == ScanTo(mem, c + 1, (0 .. 255) \ {32, 34})
    IN IF c = 0 THEN "CMD_UNKNOWN"
       ELSE IF StrNCmpEq(mem, v, STR_WRITE_REGISTER) THEN "CMD_WRITE_REGISTER"
       ELSE IF StrNCmpEq(mem, v, STR_WRITE_BULK) THEN "CMD_WRITE_BULK"
       ELSE IF StrNCmpEq(mem, v, STR_READ_REGISTER) THEN "CMD_READ_REGISTER"
       ELSE IF StrNCmpEq(mem, v, STR_PING) THEN "CMD_PING"
       ELSE "CMD_UNKNOWN"

\* The Command of type t (protocol.c:39-121) and the pointers the two
\* write_bulk loops ended at (0: loop not entered).
ParseFields(mem, t, lb) ==
    IF t = "CMD_WRITE_REGISTER"
    THEN [ok |-> TRUE,
          cmd |-> [EmptyCommand EXCEPT !.type = t,
                                       !.addr = IntField(mem, KEY_ADDR, lb),
                                       !.value = IntField(mem, KEY_VALUE, lb)],
          regs_end |-> 0, pa_end |-> 0]
    ELSE IF t = "CMD_WRITE_BULK"
    THEN BulkFields(ParseRegisters(mem, lb), ParsePaTable(mem, lb))
    ELSE IF t = "CMD_READ_REGISTER"
    THEN [ok |-> TRUE,
          cmd |-> [EmptyCommand EXCEPT !.type = t,
                                       !.addr = IntField(mem, KEY_ADDR, lb)],
          regs_end |-> 0, pa_end |-> 0]
    ELSE [ok |-> t # "CMD_UNKNOWN",
          cmd |-> [EmptyCommand EXCEPT !.type = t],
          regs_end |-> 0, pa_end |-> 0]

\* protocol_parse_command(json, &cmd): the return value, the Command, and
\* the end pointers of the write_bulk loops.
protocol_parse_command(mem, lb) == ParseFields(mem, CommandType(mem), lb)

\* The memory the parser can read through furi_string_get_cstr(line): the
\* line, its NUL, then `rest`: the bytes earlier lines left in the string's
\* buffer and the bytes that happen to follow the buffer in the heap
\* (closed by two NULs).
Mem(str, rest) == str \o <<NUL>> \o rest \o <<NUL, NUL>>

-----------------------------------------------------------------------------
(* Response encoder: cc1101_bridge_protocol.c:126-146 *)

DecChars == <<"0", "1", "2", "3", "4", "5", "6", "7", "8", "9">>
HexChars == <<"0", "1", "2", "3", "4", "5", "6", "7", "8", "9",
              "A", "B", "C", "D", "E", "F">>

\* printf's %d and %u of a number n >= 0
RECURSIVE DecStr(_)
DecStr(n) ==
    IF n < 10 THEN DecChars[n + 1]
    ELSE DecStr(n \div 10) \o DecChars[(n % 10) + 1]

\* printf's %02X of a uint8_t
Hex2(n) == HexChars[(n \div 16) + 1] \o HexChars[(n % 16) + 1]

ERR_INVALID_JSON         == 1
ERR_UNKNOWN_COMMAND      == 2
ERR_INVALID_ADDRESS      == 3
ERR_DEVICE_NOT_AVAILABLE == 4
ERR_WRITE_FAILED         == 5

protocol_generate_ack == "{\"type\":\"ack\",\"success\":true}"

\* every message the program passes is a short literal: the 256-byte buffer
\* of snprintf never truncates
protocol_generate_error(code, msg) ==
    "{\"type\":\"error\",\"code\":" \o DecStr(code) \o ",\"msg\":\"" \o msg \o "\"}"

protocol_generate_data(value) ==
    "{\"type\":\"data\",\"value\":" \o DecStr(value) \o "}"

-----------------------------------------------------------------------------
(* Register backend: cc1101_bridge_cc1101.c                                 *)
(* A backend function yields its return value and the HAL calls it made.    *)

CC1101_MAX_REGISTER == 46
PA_TABLE_SIZE       == 8

HalCall(fn, data) == [fn |-> fn, data |-> data]

BackendResult(ok, hal) == [ok |-> ok, hal |-> hal]

\* cc1101_write_register without the range check of cc1101.c:31
cc1101_write_register_unchecked(init, addr, value) ==
    IF ~init THEN BackendResult(FALSE, <<>>)
    ELSE BackendResult(TRUE,
             <<HalCall("furi_hal_subghz_load_registers", <<addr, value, 0, 0>>)>>)

\* cc1101_write_register (cc1101.c:27-39)
cc1101_write_register(init, addr, value) ==
    IF ~init THEN BackendResult(FALSE, <<>>)
    ELSE IF addr > CC1101_MAX_REGISTER THEN BackendResult(FALSE, <<>>)
    ELSE BackendResult(TRUE,
             <<HalCall("furi_hal_subghz_load_registers", <<addr, value, 0, 0>>)>>)

\* regs[i] of the 47-entry array of the Command (entries past bulk_count are 0)
RegAt(regs, i) == IF i <= Len(regs) THEN regs[i] ELSE [addr |-> 0, value |-> 0]

\* The for loop of cc1101_write_bulk (cc1101.c:52-58) from pair i on;
\* reg_data holds the bytes written so far, idx = Len(reg_data).
RECURSIVE BulkFill(_, _, _, _)
BulkFill(regs, count, i, reg_data) ==
    IF i > count THEN [ok |-> TRUE, reg_data |-> reg_data]
    ELSE IF RegAt(regs, i).addr > CC1101_MAX_REGISTER
    THEN [ok |-> FALSE, reg_data |-> reg_data]
    ELSE BulkFill(regs, count, i + 1,
                  reg_data \o <<RegAt(regs, i).addr, RegAt(regs, i).value>>)

\* cc1101_write_bulk loading the pairs it collected before the invalid one
cc1101_write_bulk_partial(init, regs, count) ==
    IF ~init THEN BackendResult(FALSE, <<>>)
    ELSE LET f == BulkFill(regs, count, 1, <<>>)
         IN BackendResult(f.ok,
                <<HalCall("furi_hal_subghz_load_registers",
                          f.reg_data \o <<0, 0>>)>>)

\* cc1101_write_bulk (cc1101.c:41-67)
cc1101_write_bulk(init, regs, count) ==
    IF ~init THEN BackendResult(FALSE, <<>>)
    ELSE LET f == BulkFill(regs, count, 1, <<>>)
         IN IF ~f.ok THEN BackendResult(FALSE, <<>>)
            ELSE BackendResult(TRUE,
                     <<HalCall("furi_hal_subghz_load_registers",
                               f.reg_data \o <<0, 0>>)>>)

\* cc1101_write_patable (cc1101.c:69-84)
cc1101_write_patable(init, pa_table, count) ==
    IF ~init THEN BackendResult(FALSE, <<>>)
    ELSE LET n == IF count > PA_TABLE_SIZE THEN PA_TABLE_SIZE ELSE count
             full_pa == [i \in 1 .. 8 |->
                            IF i <= n /\ i <= Len(pa_table) THEN pa_table[i] ELSE 0]
         IN BackendResult(TRUE,
                <<HalCall("furi_hal_subghz_load_patable", full_pa)>>)

\* cc1101_read_register without the range check of cc1101.c:90, on a chip
\* whose register addr reads back as addr
cc1101_read_register_unchecked(init, addr) ==
    IF ~init THEN 0 ELSE addr

\* cc1101_read_register (cc1101.c:86-96): there is no HAL read
cc1101_read_register(init, addr) ==
    IF ~init THEN 0
    ELSE IF addr > CC1101_MAX_REGISTER THEN 0
    ELSE 0

-----------------------------------------------------------------------------
(* Command dispatcher: app_process_command, cc1101_bridge_app.c:65-145      *)

RECEIVE_TIMEOUT_MS == 100

BeCall(fn, ok) == [fn |-> fn, ok |-> ok]

\* What one branch of the switch yields: the response, the status text,
\* `success`, and the backend and HAL calls made.
Outcome(resp, status, success, calls, hal) ==
    [response |-> resp, status |-> status, success |-> success,
     be |-> calls, hw |-> hal]

\* case CMD_WRITE_REGISTER (app.c:85-99)
AppWriteRegister(init, cmd, status) ==
    LET w == cc1101_write_register(init, cmd.addr, cmd.value)
    IN IF w.ok
       THEN Outcome(protocol_generate_ack,
                    "Wrote 0x" \o Hex2(cmd.addr) \o "->0x" \o Hex2(cmd.value),
                    TRUE, <<BeCall("cc1101_write_register", TRUE)>>, w.hal)
       ELSE Outcome(protocol_generate_error(ERR_WRITE_FAILED, "Write failed"),
                    status, FALSE,
                    <<BeCall("cc1101_write_register", FALSE)>>, w.hal)

\* case CMD_WRITE_BULK with the PA table written whatever the bulk write
\* returned (the test of app.c:104 reduced to pa_table_count > 0)
AppWriteBulkAlwaysPa(init, cmd, status) ==
    LET b == cc1101_write_bulk(init, cmd.bulk_regs, cmd.bulk_count)
        doPa == cmd.pa_table_count > 0
        t == cc1101_write_patable(init, cmd.pa_table, cmd.pa_table_count)
        success == IF doPa THEN t.ok ELSE b.ok
        calls == <<BeCall("cc1101_write_bulk", b.ok)>> \o
                 (IF doPa THEN <<BeCall("cc1101_write_patable", t.ok)>> ELSE <<>>)
        hal == b.hal \o (IF doPa THEN t.hal ELSE <<>>)
    IN IF success
       THEN Outcome(protocol_generate_ack,
                    "Bulk: " \o DecStr(cmd.bulk_count) \o " regs",
                    TRUE, calls, hal)
       ELSE Outcome(protocol_generate_error(ERR_WRITE_FAILED, "Bulk write failed"),
                    status, FALSE, calls, hal)

\* case CMD_WRITE_BULK (app.c:101-113)
AppWriteBulk(init, cmd, status) ==
    LET b == cc1101_write_bulk(init, cmd.bulk_regs, cmd.bulk_count)
        doPa == b.ok /\ cmd.pa_table_count > 0
        t == cc1101_write_patable(init, cmd.pa_table, cmd.pa_table_count)
        success == IF doPa THEN t.ok ELSE b.ok
        calls == <<BeCall("cc1101_write_bulk", b.ok)>> \o
                 (IF doPa THEN <<BeCall("cc1101_write_patable", t.ok)>> ELSE <<>>)
        hal == b.hal \o (IF doPa THEN t.hal ELSE <<>>)
    IN IF success
       THEN Outcome(protocol_generate_ack,
                    "Bulk: " \o DecStr(cmd.bulk_count) \o " regs",
                    TRUE, calls, hal)
       ELSE Outcome(protocol_generate_error(ERR_WRITE_FAILED, "Bulk write failed"),
                    status, FALSE, calls, hal)

\* case CMD_READ_REGISTER (app.c:115-122)
AppReadRegister(init, cmd, status) ==
    LET reg_value == cc1101_read_register(init, cmd.addr)
    IN Outcome(protocol_generate_data(reg_value),
               "Read 0x" \o Hex2(cmd.addr) \o "=0x" \o Hex2(reg_value),
               TRUE, <<BeCall("cc1101_read_register", TRUE)>>, <<>>)

\* case CMD_PING without the success = true of app.c:128
AppPingUncounted(init, cmd, status) ==
    Outcome(protocol_generate_ack, "Ping OK", FALSE, <<>>, <<>>)

\* case CMD_PING probing the chip with a register read
AppPingProbes(init, cmd, status) ==
    Outcome(protocol_generate_ack, "Ping OK", TRUE,
            <<BeCall("cc1101_read_register", TRUE)>>, <<>>)

\* case CMD_PING (app.c:124-129)
AppPing(init, cmd, status) ==
    Outcome(protocol_generate_ack, "Ping OK", TRUE, <<>>, <<>>)

\* default (app.c:131-134)
AppDefault(init, cmd, status) ==
    Outcome(protocol_generate_error(ERR_UNKNOWN_COMMAND, "Unknown command"),
            status, FALSE, <<>>, <<>>)

\* the parse failure branch reporting ERR_UNKNOWN_COMMAND
AppParseFailedAsUnknown(status) ==
    Outcome(protocol_generate_error(ERR_UNKNOWN_COMMAND, "Unknown command"),
            status, FALSE, <<>>, <<>>)

\* the parse failure branch (app.c:73-79)
AppParseFailed(status) ==
    Outcome(protocol_generate_error(ERR_INVALID_JSON, "Invalid JSON"),
            status, FALSE, <<>>, <<>>)

\* the switch on cmd.type (app.c:84-135)
AppSwitch(init, cmd, status) ==
    IF cmd.type = "CMD_WRITE_REGISTER" THEN AppWriteRegister(init, cmd, status)
    ELSE IF cmd.type = "CMD_WRITE_BULK" THEN AppWriteBulk(init, cmd, status)
    ELSE IF cmd.type = "CMD_READ_REGISTER" THEN AppReadRegister(init, cmd, status)
    ELSE IF cmd.type = "CMD_PING" THEN AppPing(init, cmd, status)
    ELSE AppDefault(init, cmd, status)

\* app_process_command whose parse failure branch returns without the
\* uart_send_response of app.c:76
AppProcessCommandSilentFailure(t, next) ==
    /\ pc = "process"
    /\ \E r \in {protocol_parse_command(Mem(line, tail \o t), long_bits)} :
       \E o \in {IF r.ok THEN AppSwitch(initialized, r.cmd, status_text)
                 ELSE AppParseFailed(status_text)} :
          /\ beyond' = t
          /\ parse_result' = r
          /\ response' = o.response
          /\ tx' = IF r.ok THEN <<o.response, "\n">> ELSE tx
          /\ n_sent' = IF r.ok THEN n_sent + 1 ELSE n_sent
          /\ be' = o.be
          /\ hw' = o.hw
          /\ status_text' = o.status
          /\ commands_processed' =
                 IF o.success THEN commands_processed + 1 ELSE commands_processed
    /\ pc' = next
    /\ UNCHANGED <<running, initialized, long_bits>>
    /\ UNCHANGED <<line_buffer, line_pos, timeout_ms, waited, line, tail, ret,
                   fed, delivered, n_bursts>>

\* app_process_command(app, json_str) on the line delivered, whose memory is
\* followed by the bytes t: parse, dispatch, send the response and its
\* newline, count the command.
AppProcessCommand(t, next) ==
    /\ pc = "process"
    /\ \E r \in {protocol_parse_command(Mem(line, tail \o t), long_bits)} :
       \E o \in {IF r.ok THEN AppSwitch(initialized, r.cmd, status_text)
                 ELSE AppParseFailed(status_text)} :
          /\ beyond' = t
          /\ parse_result' = r
          /\ response' = o.response
          /\ tx' = <<o.response, "\n">>
          /\ n_sent' = n_sent + 1
          /\ be' = o.be
          /\ hw' = o.hw
          /\ status_text' = o.status
          /\ commands_processed' =
                 IF o.success THEN commands_processed + 1 ELSE commands_processed
    /\ pc' = next
    /\ UNCHANGED <<running, initialized, long_bits>>
    /\ UNCHANGED <<line_buffer, line_pos, timeout_ms, waited, line, tail, ret,
                   fed, delivered, n_bursts>>

\* cc1101_bridge_app up to the main loop (app.c:148-184): the App fields,
\* cc1101_init (cc1101.c:16-25); no command has been processed yet.
AppInit ==
    /\ running = TRUE
    /\ commands_processed = 0
    /\ status_text = "Waiting for commands..."
    /\ initialized = TRUE
    /\ beyond = <<>>
    /\ parse_result = [ok |-> FALSE, cmd |-> EmptyCommand,
                       regs_end |-> 0, pa_end |-> 0]
    /\ response = ""
    /\ tx = <<>>
    /\ be = <<>>
    /\ hw = <<>>
    /\ n_sent = 0

\* app_input_callback (app.c:52-62) on a press of Back
AppInputBack ==
    /\ running
    /\ pc # "stopped"
    /\ running' = FALSE
    /\ UNCHANGED <<commands_processed, status_text, initialized>>
    /\ UNCHANGED <<uartVars, callVars, long_bits>>

\* while(app->running) is left and the cleanup runs (app.c:186, 202-217)
AppExit ==
    /\ pc = "loop"
    /\ ~running
    /\ pc' = "stopped"
    /\ initialized' = initialized
    /\ UNCHANGED <<line_buffer, line_pos, timeout_ms, waited, line, tail, ret,
                   fed, delivered, n_bursts>>
    /\ UNCHANGED <<running, commands_processed, status_text, callVars,
                   long_bits>>

\* the loop body calls uart_receive_line(app->uart, line, RECEIVE_TIMEOUT_MS)
AppReceive ==
    /\ running
    /\ UartEnter(RECEIVE_TIMEOUT_MS, "loop")

-----------------------------------------------------------------------------
(* The reassembler driven by a caller that calls uart_receive_line again    *)
(* and again while the transport hands over short bursts.                   *)

MaxBursts == 3

Alphabet == {97, LF, CR, NUL}       \* 'a', the two terminators, NUL

\* every burst of one or two bytes of the alphabet
ShortBursts ==
    {<<a>> : a \in Alphabet} \cup {<<a, b>> : a \in Alphabet, b \in Alphabet}

Timeouts == {0, POLL_DELAY_MS}

UartCall == \E t \in Timeouts : UartEnter(t, "idle")

UartPollShort ==
    \E rx \in ShortBursts :
        /\ n_bursts < MaxBursts
        /\ UartPoll(rx, "idle", "idle")

UartPollEmpty == UartPoll(<<>>, "idle", "idle")

\* the parser is not called here: the build is the target's
InitUart == long_bits = 32 /\ UartInit /\ AppInit /\ pc = "idle"

NextUart == UartCall \/ UartPollShort \/ UartPollEmpty

SpecUart == InitUart /\ [][NextUart]_vars

-----------------------------------------------------------------------------
(* The reassembler fed an overlong run: bursts of filler bytes, then a      *)
(* request line.                                                            *)

MaxOvBursts == 5

PING_LINE == <<123, 34, 99, 109, 100, 34, 58, 34, 112, 105, 110, 103, 34, 125>>
    \* {"cmd":"ping"}

FillerBursts == {Fill(120, 500), Fill(120, RX_BUFFER_SIZE)}      \* 'x' ...

OverflowBursts == FillerBursts \cup {PING_LINE \o <<LF>>, <<LF>>}

UartPollOverflow ==
    \E rx \in OverflowBursts :
        /\ n_bursts < MaxOvBursts
        /\ UartPoll(rx, "idle", "idle")

NextOverflow == UartCall \/ UartPollOverflow \/ UartPollEmpty

SpecOverflow == InitUart /\ [][NextOverflow]_vars

-----------------------------------------------------------------------------
(* Request lines *)

\* {"cmd":"ping"}
REQ_PING ==
    <<123, 34, 99, 109, 100, 34, 58, 34, 112, 105, 110, 103, 34, 125>>

\* {"cmd":"write_register","addr":15,"value":200}
REQ_WRITE_15_200 ==
    <<123, 34, 99, 109, 100, 34, 58, 34, 119, 114, 105, 116, 101, 95, 114,
      101, 103, 105, 115, 116, 101, 114, 34, 44, 34, 97, 100, 100, 114, 34,
      58, 49, 53, 44, 34, 118, 97, 108, 117, 101, 34, 58, 50, 48, 48, 125>>

\* {"cmd":"write_register","addr":99,"value":1}
REQ_WRITE_99_1 ==
    <<123, 34, 99, 109, 100, 34, 58, 34, 119, 114, 105, 116, 101, 95, 114,
      101, 103, 105, 115, 116, 101, 114, 34, 44, 34, 97, 100, 100, 114, 34,
      58, 57, 57, 44, 34, 118, 97, 108, 117, 101, 34, 58, 49, 125>>

\* {"cmd":"read_register","addr":10}
REQ_READ_10 ==
    <<123, 34, 99, 109, 100, 34, 58, 34, 114, 101, 97, 100, 95, 114, 101,
      103, 105, 115, 116, 101, 114, 34, 44, 34, 97, 100, 100, 114, 34, 58,
      49, 48, 125>>

\* not json at all
REQ_NOT_JSON ==
    <<110, 111, 116, 32, 106, 115, 111, 110, 32, 97, 116, 32, 97, 108, 108>>

\* {"cmd":"write_bulk","registers":{"2":41,"3":64},"pa_table":[192,3]}
REQ_BULK_OK ==
    <<123, 34, 99, 109, 100, 34, 58, 34, 119, 114, 105, 116, 101, 95, 98,
      117, 108, 107, 34, 44, 34, 114, 101, 103, 105, 115, 116, 101, 114,
      115, 34, 58, 123, 34, 50, 34, 58, 52, 49, 44, 34, 51, 34, 58, 54, 52,
      125, 44, 34, 112, 97, 95, 116, 97, 98, 108, 101, 34, 58, 91, 49, 57,
      50, 44, 51, 93, 125>>

\* {"cmd":"write_bulk","registers":{"0":6,"0":7}}
REQ_BULK_NO_PA ==
    <<123, 34, 99, 109, 100, 34, 58, 34, 119, 114, 105, 116, 101, 95, 98,
      117, 108, 107, 34, 44, 34, 114, 101, 103, 105, 115, 116, 101, 114,
      115, 34, 58, 123, 34, 48, 34, 58, 54, 44, 34, 48, 34, 58, 55, 125,
      125>>

\* {"cmd":"write_bulk","registers":{"2":41,"47":1,"3":64},"pa_table":[192]}
REQ_BULK_BAD ==
    <<123, 34, 99, 109, 100, 34, 58, 34, 119, 114, 105, 116, 101, 95, 98,
      117, 108, 107, 34, 44, 34, 114, 101, 103, 105, 115, 116, 101, 114,
      115, 34, 58, 123, 34, 50, 34, 58, 52, 49, 44, 34, 52, 55, 34, 58, 49,
      44, 34, 51, 34, 58, 54, 52, 125, 44, 34, 112, 97, 95, 116, 97, 98,
      108, 101, 34, 58, 91, 49, 57, 50, 93, 125>>

\* {"cmd":"write_bulk","registers":{"2":41,"
REQ_BULK_CUT ==
    <<123, 34, 99, 109, 100, 34, 58, 34, 119, 114, 105, 116, 101, 95, 98,
      117, 108, 107, 34, 44, 34, 114, 101, 103, 105, 115, 116, 101, 114,
      115, 34, 58, 123, 34, 50, 34, 58, 52, 49, 44, 34>>

Requests ==
    {REQ_PING,
     REQ_WRITE_15_200,
     REQ_WRITE_99_1,
     REQ_READ_10,
     REQ_NOT_JSON,
     REQ_BULK_OK,
     REQ_BULK_NO_PA,
     REQ_BULK_BAD,
     REQ_BULK_CUT}

\* bytes left behind the line in memory: nothing, or the text  "7":9,5]}
TAIL_TEXT == <<34, 55, 34, 58, 57, 44, 53, 93, 125>>

Tails == {<<>>, TAIL_TEXT}

\* the decimal digits of n >= 0, as characters
RECURSIVE DecDigits(_)
DecDigits(n) ==
    IF n < 10 THEN <<48 + n>>
    ELSE DecDigits(n \div 10) \o <<48 + (n % 10)>>

\* the decimal text of the integer n, with its sign when negative
IntText(n) == IF n < 0 THEN <<45>> \o DecDigits(0 - n) ELSE DecDigits(n)

\* integers written in the addr and value fields
FieldInts == {0 - 300, 0 - 256, 0 - 210, 0 - 1, 0, 46, 47, 255, 256, 302, 303, 99999}

\* {"cmd":"write_register","addr":<a>,"value":<v>}
WriteRegisterLine(a, v) ==
    <<123, 34, 99, 109, 100, 34, 58, 34, 119, 114, 105, 116, 101, 95, 114, 101, 103, 105, 115, 116, 101, 114, 34, 44, 34, 97, 100, 100, 114, 34, 58>>
    \o IntText(a) \o <<44, 34, 118, 97, 108, 117, 101, 34, 58>>
    \o IntText(v) \o <<125>>

\* {"cmd":"read_register","addr":<a>}
ReadRegisterLine(a) ==
    <<123, 34, 99, 109, 100, 34, 58, 34, 114, 101, 97, 100, 95, 114, 101, 103, 105, 115, 116, 101, 114, 34, 44, 34, 97, 100, 100, 114, 34, 58>>
    \o IntText(a) \o <<125>>

\* {"cmd":"write_register","addr":,"value":x}: the keys with no digit after
REQ_WRITE_NO_DIGIT ==
    <<123, 34, 99, 109, 100, 34, 58, 34, 119, 114, 105, 116, 101, 95, 114,
      101, 103, 105, 115, 116, 101, 114, 34, 44, 34, 97, 100, 100, 114, 34,
      58, 44, 34, 118, 97, 108, 117, 101, 34, 58, 120, 125>>

\* {"cmd":"read_register","addr":}
REQ_READ_NO_DIGIT ==
    <<123, 34, 99, 109, 100, 34, 58, 34, 114, 101, 97, 100, 95, 114, 101,
      103, 105, 115, 116, 101, 114, 34, 44, 34, 97, 100, 100, 114, 34, 58,
      125>>

\* {"cmd":"write_register","value":7}: no addr key
REQ_WRITE_NO_ADDR ==
    <<123, 34, 99, 109, 100, 34, 58, 34, 119, 114, 105, 116, 101, 95, 114,
      101, 103, 105, 115, 116, 101, 114, 34, 44, 34, 118, 97, 108, 117, 101,
      34, 58, 55, 125>>

\* "<addr>":<value> for each pair, separated by commas
RECURSIVE RegsText(_, _)
RegsText(pairs, i) ==
    IF i > Len(pairs) THEN <<>>
    ELSE (IF i > 1 THEN <<44>> ELSE <<>>)
         \o <<34>> \o DecDigits(pairs[i].addr) \o <<34, 58>>
         \o DecDigits(pairs[i].value) \o RegsText(pairs, i + 1)

\* <v>,<v>,... for each entry
RECURSIVE PaText(_, _)
PaText(pa, i) ==
    IF i > Len(pa) THEN <<>>
    ELSE (IF i > 1 THEN <<44>> ELSE <<>>) \o DecDigits(pa[i]) \o PaText(pa, i + 1)

\* {"cmd":"write_bulk","registers":{<pairs>},"pa_table":[<pa>]}
BulkLine(pairs, pa) ==
    <<123, 34, 99, 109, 100, 34, 58, 34, 119, 114, 105, 116, 101, 95, 98, 117, 108, 107, 34, 44, 34, 114, 101, 103, 105, 115, 116, 101, 114, 115, 34, 58, 123>>
    \o RegsText(pairs, 1) \o <<125, 44, 34, 112, 97, 95, 116, 97, 98, 108, 101, 34, 58, 91>>
    \o PaText(pa, 1) \o <<93, 125>>

\* {"cmd":"write_bulk","pa_table":[<pa>],"registers":{<pairs>}}
BulkLinePaFirst(pairs, pa) ==
    <<123, 34, 99, 109, 100, 34, 58, 34, 119, 114, 105, 116, 101, 95, 98, 117, 108, 107, 34, 44, 34, 112, 97, 95, 116, 97, 98, 108, 101, 34, 58, 91>>
    \o PaText(pa, 1) \o <<93, 44, 34, 114, 101, 103, 105, 115, 116, 101, 114, 115, 34, 58, 123>>
    \o RegsText(pairs, 1) \o <<125, 125>>

\* n pairs: the addresses a0, a0+step, ... (mod 256), values 8, 13, ...
PairRun(n, a0, step) ==
    [i \in 1 .. n |-> [addr |-> (a0 + (i - 1) * step) % 256,
                       value |-> (3 + 5 * i) % 256]]

\* n pairs with valid addresses, but for the k-th, whose address is 47
PairsBadAt(n, k) ==
    [i \in 1 .. n |-> [addr |-> IF i = k THEN 47 ELSE i - 1,
                       value |-> (3 + 5 * i) % 256]]

PairCounts == {0, 1, 2, 3, 46, 47, 48, 50}

PairLists ==
    {PairRun(n, 0, 1) : n \in PairCounts}            \* addresses 0, 1, 2, ...
    \cup {PairRun(n, 5, 0) : n \in PairCounts}       \* the address 5 repeated
    \cup {PairRun(n, 40, 3) : n \in PairCounts}      \* 40, 43, 46, 49, ...
    \cup {PairsBadAt(n, k) : n \in {1, 2, 3, 47}, k \in {1, 2, 3, 24, 47}}

PaLists == {<<>>, <<192>>, <<1, 2, 3, 4, 5, 6, 7, 8>>, <<1, 2, 3, 4, 5, 6, 7, 8, 9>>}

\* lines made of at most MaxTokens of these pieces
MaxTokens == 4

Tokens ==
    {KEY_CMD, <<58>>, <<32>>, <<34>>,
     STR_PING, STR_WRITE_REGISTER, STR_READ_REGISTER, STR_WRITE_BULK,
     <<80, 105, 110, 103>>}                                        \* Ping

RECURSIVE TokenLines(_)
TokenLines(n) ==
    IF n = 0 THEN {<<>>}
    ELSE LET shorter == TokenLines(n - 1)
         IN shorter \cup {l \o t : l \in shorter, t \in Tokens}

\* Numbers at and beyond the limits of int and of long, as decimal text
\* (the last has leading zeros)
LongTexts ==
    {<<50, 49, 52, 55, 52, 56, 51, 54, 52, 55>>,
     <<50, 49, 52, 55, 52, 56, 51, 54, 52, 56>>,
     <<52, 50, 57, 52, 57, 54, 55, 51, 52, 50>>,
     <<57, 50, 50, 51, 51, 55, 50, 48, 51, 54, 56, 53, 52, 55, 55, 53, 56, 48, 55>>,
     <<57, 50, 50, 51, 51, 55, 50, 48, 51, 54, 56, 53, 52, 55, 55, 53, 56, 48, 56>>,
     <<49, 56, 52, 52, 54, 55, 52, 52, 48, 55, 51, 55, 48, 57, 53, 53, 49, 54, 49, 54>>,
     <<50, 48, 48, 48, 48, 48, 48, 48, 48, 48, 48, 48, 48, 48, 48, 48, 48, 48, 48, 48>>,
     <<45, 50, 49, 52, 55, 52, 56, 51, 54, 52, 56>>,
     <<45, 50, 49, 52, 55, 52, 56, 51, 54, 52, 57>>,
     <<45, 57, 50, 50, 51, 51, 55, 50, 48, 51, 54, 56, 53, 52, 55, 55, 53, 56, 48, 57>>,
     <<48, 48, 48, 48, 48, 48, 48, 48, 48, 48, 48, 48, 48, 48, 48, 48, 48, 48, 48, 48, 48, 52, 54>>}

\* {"cmd":"write_register","addr":<at>,"value":<vt>} for decimal texts
WriteRegisterTextLine(at, vt) ==
    <<123, 34, 99, 109, 100, 34, 58, 34, 119, 114, 105, 116, 101, 95, 114, 101, 103, 105, 115, 116, 101, 114, 34, 44, 34, 97, 100, 100, 114, 34, 58>>
    \o at \o <<44, 34, 118, 97, 108, 117, 101, 34, 58>> \o vt \o <<125>>

\* {"cmd":"read_register","addr":<at>} for a decimal text
ReadRegisterTextLine(at) ==
    <<123, 34, 99, 109, 100, 34, 58, 34, 114, 101, 97, 100, 95, 114, 101, 103, 105, 115, 116, 101, 114, 34, 44, 34, 97, 100, 100, 114, 34, 58>>
    \o at \o <<125>>

\* {"cmd":"write_bulk","registers":{"9223372036854775808":1},"pa_table":[18446744073709551616]}
REQ_BULK_LONG_1 ==
    <<123, 34, 99, 109, 100, 34, 58, 34, 119, 114, 105, 116, 101, 95,
      98, 117, 108, 107, 34, 44, 34, 114, 101, 103, 105, 115, 116, 101,
      114, 115, 34, 58, 123, 34, 57, 50, 50, 51, 51, 55, 50, 48, 51, 54,
      56, 53, 52, 55, 55, 53, 56, 48, 56, 34, 58, 49, 125, 44, 34, 112,
      97, 95, 116, 97, 98, 108, 101, 34, 58, 91, 49, 56, 52, 52, 54, 55,
      52, 52, 48, 55, 51, 55, 48, 57, 53, 53, 49, 54, 49, 54, 93, 125>>

\* {"cmd":"write_bulk","registers":{"4294967342":2147483648,"3":64},"pa_table":[4294967488]}
REQ_BULK_LONG_2 ==
    <<123, 34, 99, 109, 100, 34, 58, 34, 119, 114, 105, 116, 101, 95,
      98, 117, 108, 107, 34, 44, 34, 114, 101, 103, 105, 115, 116, 101,
      114, 115, 34, 58, 123, 34, 52, 50, 57, 52, 57, 54, 55, 51, 52, 50,
      34, 58, 50, 49, 52, 55, 52, 56, 51, 54, 52, 56, 44, 34, 51, 34,
      58, 54, 52, 125, 44, 34, 112, 97, 95, 116, 97, 98, 108, 101, 34,
      58, 91, 52, 50, 57, 52, 57, 54, 55, 52, 56, 56, 93, 125>>

\* {"cmd":"write_bulk","registers":{"2":41,"0":0,"3":64}}
REQ_BULK_ZERO_PAIR ==
    <<123, 34, 99, 109, 100, 34, 58, 34, 119, 114, 105, 116, 101, 95,
      98, 117, 108, 107, 34, 44, 34, 114, 101, 103, 105, 115, 116,
      101, 114, 115, 34, 58, 123, 34, 50, 34, 58, 52, 49, 44, 34, 48,
      34, 58, 48, 44, 34, 51, 34, 58, 54, 52, 125, 125>>

ParseLines ==
    (TokenLines(MaxTokens) \ {<<>>})
    \cup Requests
    \cup {WriteRegisterLine(a, v) : a \in 0 .. 255, v \in {1, 200}}
    \cup {ReadRegisterLine(a) : a \in 0 .. 255}
    \cup {WriteRegisterLine(a, v) : a \in FieldInts, v \in FieldInts}
    \cup {ReadRegisterLine(a) : a \in FieldInts}
    \cup {REQ_WRITE_NO_DIGIT, REQ_READ_NO_DIGIT, REQ_WRITE_NO_ADDR}
    \cup {REQ_BULK_ZERO_PAIR}
    \cup {WriteRegisterTextLine(t, <<49>>) : t \in LongTexts}
    \cup {WriteRegisterTextLine(<<53>>, t) : t \in LongTexts}
    \cup {ReadRegisterTextLine(t) : t \in LongTexts}
    \cup {REQ_BULK_LONG_1, REQ_BULK_LONG_2}
    \cup {BulkLine(pairs, pa) : pairs \in PairLists, pa \in PaLists}
    \cup {BulkLinePaFirst(pairs, pa) : pairs \in PairLists, pa \in PaLists}

-----------------------------------------------------------------------------
(* The application: the main loop of cc1101_bridge_app (app.c:186-200).    *)
(* Each burst of the transport is one request line and its LF.             *)

MaxLines == 2

AppPollRequest ==
    \E req \in Requests :
        /\ n_bursts < MaxLines
        /\ UartPoll(req \o <<LF>>, "process", "loop")

AppPollEmpty == UartPoll(<<>>, "process", "loop")

AppProcess == \E t \in Tails : AppProcessCommand(t, "loop")

Init == long_bits \in LongBits /\ UartInit /\ AppInit /\ pc = "loop"

Next ==
    \/ AppReceive
    \/ AppPollRequest
    \/ AppPollEmpty
    \/ AppProcess
    \/ AppInputBack
    \/ AppExit

Spec == Init /\ [][Next]_vars

-----------------------------------------------------------------------------
(* One app_process_command call on a line of ParseLines, right after        *)
(* uart_receive_line delivered it: as the first line the application        *)
(* receives, or as the line that follows a ping request.                    *)

\* the application after it has received and processed REQ_PING
AppAfterPing ==
    /\ running = TRUE
    /\ commands_processed = 1
    /\ status_text = "Ping OK"
    /\ initialized = TRUE
    /\ beyond = <<>>
    /\ parse_result = protocol_parse_command(Mem(REQ_PING, <<>>), long_bits)
    /\ response = protocol_generate_ack
    /\ tx = <<protocol_generate_ack, "\n">>
    /\ be = <<>>
    /\ hw = <<>>
    /\ n_sent = 1

\* The number of furi_hal_cdc_receive calls that hand over the line l and
\* its LF: each yields at most RX_BUFFER_SIZE bytes (uart.c:45)
LineBursts(l) == (Len(l) + RX_BUFFER_SIZE) \div RX_BUFFER_SIZE

\* The line arrives in full bursts; every turn of the loop of
\* uart_receive_line but the one that delivers it ends in the delay.
InitParse ==
    /\ long_bits \in LongBits
    /\ line \in ParseLines
    /\ pc = "process"
    /\ line_buffer = <<>>
    /\ line_pos = 0
    /\ timeout_ms = RECEIVE_TIMEOUT_MS
    /\ waited = POLL_DELAY_MS * (LineBursts(line) - 1)
    /\ ret = "true"
    /\ \/ /\ AppInit
          /\ tail = StringSetStr(<<>>, <<>>, line)
          /\ fed = line \o <<LF>>
          /\ delivered = <<line>>
          /\ n_bursts = LineBursts(line)
       \/ /\ AppAfterPing
          /\ tail = StringSetStr(REQ_PING, <<>>, line)
          /\ fed = REQ_PING \o <<LF>> \o line \o <<LF>>
          /\ delivered = <<REQ_PING, line>>
          /\ n_bursts = 1 + LineBursts(line)

NextParse == \E t \in Tails : AppProcessCommand(t, "loop")

SpecParse == InitParse /\ [][NextParse]_vars

-----------------------------------------------------------------------------
(* Claims about the reassembler *)

IsTerminator(c) == c = LF \/ c = CR

\* The lines of a byte stream: its maximal non-empty runs of non-terminator
\* bytes that are followed by a terminator, in stream order.
RECURSIVE LinesFrom(_, _, _)
LinesFrom(s, i, cur) ==
    IF i > Len(s) THEN <<>>
    ELSE IF IsTerminator(s[i])
    THEN (IF cur # <<>> THEN <<cur>> ELSE <<>>) \o LinesFrom(s, i + 1, <<>>)
    ELSE LinesFrom(s, i + 1, Append(cur, s[i]))

StreamLines(s) == LinesFrom(s, 1, <<>>)

NoNul(s) == \A i \in 1 .. Len(s) : s[i] # NUL

\* C1 (as claimed): whatever the division of a stream of short NUL-free lines
\* into bursts, the lines delivered are the lines of the stream, in order,
\* each once: what has been delivered is always a prefix of the stream's
\* lines, and once a call has timed out every line of the stream handed over
\* so far has been delivered.
C1_LinesIndependentOfBursts ==
    NoNul(fed) =>
        /\ IsPrefix(delivered, StreamLines(fed))
        /\ (ret = "false" => delivered = StreamLines(fed))

\* C2 (as claimed): after 2000 non-terminator bytes followed by a request
\* line and its terminator, the only line ever delivered is the request line.
C2_OverlongLineDroppedWhole ==
    fed = Fill(120, 2000) \o PING_LINE \o <<LF>> =>
        delivered = <<PING_LINE>>

\* C3 (as claimed): no delivered line is empty, and right after a delivery
\* the accumulator position is 0.
C3_NoEmptyLineDelivered ==
    /\ \A k \in 1 .. Len(delivered) : delivered[k] # <<>>
    /\ (ret = "true" => line_pos = 0 /\ line # <<>>)

-----------------------------------------------------------------------------
(* Claims about the dispatcher and the parser: one app_process_command call *)
(* on the line `line`; pc = "loop" once it has returned.                    *)

ACK_LINE == "{\"type\":\"ack\",\"success\":true}"

WRITE_FAILED_LINE == "{\"type\":\"error\",\"code\":5,\"msg\":\"Write failed\"}"

BULK_FAILED_LINE == "{\"type\":\"error\",\"code\":5,\"msg\":\"Bulk write failed\"}"

INVALID_JSON_LINE == "{\"type\":\"error\",\"code\":1,\"msg\":\"Invalid JSON\"}"

\* the error lines with code 5
Code5Lines == {WRITE_FAILED_LINE, BULK_FAILED_LINE}

DataLine(v) == "{\"type\":\"data\",\"value\":" \o DecStr(v) \o "}"

\* the call has returned and the line parsed as a command of type t
Processed(t) ==
    pc = "loop" /\ parse_result.ok /\ parse_result.cmd.type = t

\* C4: a write_register command with addr in 0..46 is answered with the ack
\* line and makes one register load of (addr, value); with addr in 47..255 it
\* is answered with the "Write failed" error line and makes no hardware call.
C4_WriteRegisterRange ==
    Processed("CMD_WRITE_REGISTER") =>
        LET a == parse_result.cmd.addr
            v == parse_result.cmd.value
        IN /\ a \in 0 .. 255
           /\ v \in 0 .. 255
           /\ a <= 46 =>
                 /\ response = ACK_LINE
                 /\ hw = <<[fn |-> "furi_hal_subghz_load_registers",
                            data |-> <<a, v, 0, 0>>]>>
           /\ a >= 47 =>
                 /\ response = WRITE_FAILED_LINE
                 /\ hw = <<>>

\* the first out-of-range address, written: error line, no hardware call
C4_Witness ==
    /\ Processed("CMD_WRITE_REGISTER")
    /\ line = WriteRegisterLine(47, 1)
    /\ parse_result.cmd.addr = 47
    /\ response = WRITE_FAILED_LINE
    /\ hw = <<>>

\* C5: a read_register command is always answered with a data line carrying
\* a value in 0..255, never with an error line; an address above 46 reads
\* as 0; the only backend call is the read, and no hardware call is made.
C5_ReadAlwaysData ==
    Processed("CMD_READ_REGISTER") =>
        /\ \E v \in 0 .. 255 : response = DataLine(v)
        /\ parse_result.cmd.addr > 46 => response = DataLine(0)
        /\ be = <<[fn |-> "cc1101_read_register", ok |-> TRUE]>>
        /\ hw = <<>>

\* register 200 is read: the data line with value 0
C5_Witness ==
    /\ Processed("CMD_READ_REGISTER")
    /\ line = ReadRegisterLine(200)
    /\ parse_result.cmd.addr = 200
    /\ response = "{\"type\":\"data\",\"value\":0}"

\* C6: a ping is answered with the ack line and issues no backend call (no
\* register write, bulk write, PA-table write or read) and no hardware call.
C6_PingNoBackend ==
    Processed("CMD_PING") =>
        /\ response = ACK_LINE
        /\ be = <<>>
        /\ hw = <<>>

C6_Witness ==
    /\ Processed("CMD_PING")
    /\ line = REQ_PING
    /\ response = ACK_LINE
    /\ tx = <<ACK_LINE, "\n">>

\* the word w stands in l at position i
HasAt(l, i, w) ==
    i + Len(w) - 1 <= Len(l) /\ SubSeq(l, i, i + Len(w) - 1) = w

Least(S) == CHOOSE i \in S : \A j \in S : i <= j

CommandNames ==
    {STR_WRITE_REGISTER, STR_WRITE_BULK, STR_READ_REGISTER, STR_PING}

\* The line names a command: it has a "cmd" label, a ':' after the first
\* one, and the text after that ':' and the run of spaces and double quotes
\* that follows it starts with one of the four command names.
NamesCommand(l) ==
    LET labels == {i \in 1 .. Len(l) : HasAt(l, i, KEY_CMD)}
    IN /\ labels # {}
       /\ LET colons == {j \in Least(labels) .. Len(l) : l[j] = 58}
          IN /\ colons # {}
             /\ LET start == Least({v \in (Least(colons) + 1) .. (Len(l) + 1) :
                                      v = Len(l) + 1 \/ l[v] \notin {32, 34}})
                IN \E name \in CommandNames : HasAt(l, start, name)

\* C7: the parser returns false exactly for the lines that name no command;
\* such a line is answered with the "Invalid JSON" error line, makes no
\* backend or hardware call, and leaves the counter and the status text as
\* they were.
C7_UnknownIsInvalidJson ==
    [][(pc = "process" /\ pc' = "loop") =>
          /\ (~parse_result'.ok) <=> ~NamesCommand(line)
          /\ ~NamesCommand(line) =>
                /\ response' = INVALID_JSON_LINE
                /\ tx' = <<INVALID_JSON_LINE, "\n">>
                /\ be' = <<>>
                /\ hw' = <<>>
                /\ commands_processed' = commands_processed
                /\ status_text' = status_text]_vars

\* "cmd":Ping after a ping: rejected, the counter still 1, the status still
\* that of the ping
C7_Witness ==
    /\ pc = "loop"
    /\ line = KEY_CMD \o <<58, 80, 105, 110, 103>>
    /\ ~parse_result.ok
    /\ response = INVALID_JSON_LINE
    /\ commands_processed = 1
    /\ status_text = "Ping OK"

\* some pair of the parsed command has an address above 46
HasInvalidPair(cmd) ==
    \E i \in 1 .. Len(cmd.bulk_regs) : cmd.bulk_regs[i].addr > 46

\* C8: a write_bulk command with an address above 46 in any position is
\* answered with an error line of code 5 and makes no hardware call: neither
\* a register of the set nor the PA table is written.
C8_BulkAllOrNothing ==
    (Processed("CMD_WRITE_BULK") /\ HasInvalidPair(parse_result.cmd)) =>
        /\ response \in Code5Lines
        /\ hw = <<>>

\* 47 pairs of which only the last has an invalid address, and a PA table
C8_Witness ==
    /\ Processed("CMD_WRITE_BULK")
    /\ line = BulkLine(PairsBadAt(47, 47), <<192>>)
    /\ parse_result.cmd.bulk_count = 47
    /\ parse_result.cmd.bulk_regs[47].addr = 47
    /\ response = BULK_FAILED_LINE
    /\ hw = <<>>

\* C9: in a write_bulk command the bulk write is the first backend call; the
\* PA-table write follows it exactly when the bulk write succeeded and the
\* command has a PA entry; the answer is the ack line exactly when every
\* call made succeeded, and an error line of code 5 otherwise.
C9_BulkThenPaTable ==
    Processed("CMD_WRITE_BULK") =>
        /\ Len(be) \in {1, 2}
        /\ be[1].fn = "cc1101_write_bulk"
        /\ Len(be) = 2 <=> (be[1].ok /\ parse_result.cmd.pa_table_count > 0)
        /\ Len(be) = 2 => be[2].fn = "cc1101_write_patable"
        /\ \A i \in 1 .. Len(hw) :
              hw[i].fn = IF i = 1 /\ be[1].ok
                         THEN "furi_hal_subghz_load_registers"
                         ELSE "furi_hal_subghz_load_patable"
        /\ Len(hw) <= Len(be)
        /\ IF \A i \in 1 .. Len(be) : be[i].ok
           THEN response = ACK_LINE
           ELSE response \in Code5Lines

\* two registers and two PA entries: the register load, then the PA load
C9_Witness ==
    /\ Processed("CMD_WRITE_BULK")
    /\ line = REQ_BULK_OK
    /\ be = <<[fn |-> "cc1101_write_bulk", ok |-> TRUE],
              [fn |-> "cc1101_write_patable", ok |-> TRUE]>>
    /\ hw = <<[fn |-> "furi_hal_subghz_load_registers",
               data |-> <<2, 41, 3, 64, 0, 0>>],
              [fn |-> "furi_hal_subghz_load_patable",
               data |-> <<192, 3, 0, 0, 0, 0, 0, 0>>]>>
    /\ response = ACK_LINE

\* the first min(Len(pairs), 47) pairs
FirstPairs(pairs) ==
    SubSeq(pairs, 1, IF Len(pairs) < 47 THEN Len(pairs) ELSE 47)

\* the write_bulk lines whose registers object holds the well-formed pairs
\* `pairs`, each with its text
BulkCases ==
    {[text |-> BulkLine(pairs, pa), pairs |-> pairs] :
        pairs \in PairLists, pa \in PaLists}

\* C10: a parsed write_bulk command holds at most 47 pairs and at most 8 PA
\* entries; for a line whose registers object holds the well-formed pairs
\* `pairs`, the parsed pairs are the first min(n, 47) of them in textual
\* order, duplicates included.
C10_BulkCapacity ==
    Processed("CMD_WRITE_BULK") =>
        /\ parse_result.cmd.bulk_count <= 47
        /\ Len(parse_result.cmd.bulk_regs) = parse_result.cmd.bulk_count
        /\ parse_result.cmd.pa_table_count <= 8
        /\ Len(parse_result.cmd.pa_table) = parse_result.cmd.pa_table_count
        /\ \A c \in BulkCases :
              line = c.text => parse_result.cmd.bulk_regs = FirstPairs(c.pairs)

\* 50 pairs of the one address 5: the first 47 are kept
C10_Witness ==
    /\ Processed("CMD_WRITE_BULK")
    /\ line = BulkLine(PairRun(50, 5, 0), <<>>)
    /\ parse_result.cmd.bulk_count = 47
    /\ parse_result.cmd.bulk_regs = SubSeq(PairRun(50, 5, 0), 1, 47)

\* the positions of l from `from` on that hold the character c
PositionsOf(l, from, c) == {i \in from .. Len(l) : l[i] = c}

\* The values (mod 256) of the digit runs of l[i .. hi], in order; cur is
\* the value of the run being read and open says whether one is being read.
RECURSIVE RunsIn(_, _, _, _, _)
RunsIn(l, i, hi, cur, open) ==
    IF i > hi THEN (IF open THEN <<cur % 256>> ELSE <<>>)
    ELSE IF l[i] \in 48 .. 57
    THEN RunsIn(l, i + 1, hi, 10 * cur + (l[i] - 48), TRUE)
    ELSE (IF open THEN <<cur % 256>> ELSE <<>>) \o RunsIn(l, i + 1, hi, 0, FALSE)

\* The digit runs between the '[' that follows the pa_table key and the
\* first ']' after it, at most the first 8; none without the key or the '['.
ArrayEntries(l) ==
    LET keys == {i \in 1 .. Len(l) : HasAt(l, i, KEY_PA_TABLE)}
    IN IF keys = {} THEN <<>>
       ELSE LET opens == PositionsOf(l, Least(keys), 91)
            IN IF opens = {} THEN <<>>
               ELSE LET o == Least(opens)
                        closes == PositionsOf(l, o, 93)
                        c == IF closes = {} THEN Len(l) + 1 ELSE Least(closes)
                        runs == RunsIn(l, o + 1, c - 1, 0, FALSE)
                    IN SubSeq(runs, 1, IF Len(runs) < 8 THEN Len(runs) ELSE 8)

\* C11 (as claimed): the pa_table of a parsed write_bulk command is the
\* digit runs between the '[' after the pa_table key and the first ']' after
\* it (at most 8): digits later in the line never become PA entries.
C11_PaTableStopsAtBracket ==
    Processed("CMD_WRITE_BULK") =>
        parse_result.cmd.pa_table = ArrayEntries(line)

\* the 8-bit number k is n narrowed by truncation: n = 256 * q + k
Narrows(n, k) ==
    k \in 0 .. 255 /\ \E q \in {n \div 256} : n = 256 * q + k

HasKey(l, key) == \E i \in 1 .. Len(l) : HasAt(l, i, key)

\* the write_register command is answered as one with the fields (a, v)
AnsweredAsWrite(a, v) ==
    IF a <= 46
    THEN /\ response = ACK_LINE
         /\ hw = <<[fn |-> "furi_hal_subghz_load_registers",
                    data |-> <<a, v, 0, 0>>]>>
    ELSE /\ response = WRITE_FAILED_LINE
         /\ hw = <<>>

\* the write_register and read_register lines with the integers written in
\* their fields, the largest and the smallest int among them
WriteCases ==
    {[text |-> WriteRegisterLine(n, m), addr |-> n, value |-> m] :
        n \in FieldInts, m \in FieldInts}
    \cup {[text |-> WriteRegisterTextLine(
                        <<50, 49, 52, 55, 52, 56, 51, 54, 52, 55>>, <<49>>),
           addr |-> 2147483647, value |-> 1],
          [text |-> WriteRegisterTextLine(
                        <<53>>, <<45, 50, 49, 52, 55, 52, 56, 51, 54, 52, 56>>),
           addr |-> 5, value |-> (0 - 2147483647) - 1]}

ReadCases ==
    {[text |-> ReadRegisterLine(n), addr |-> n] : n \in FieldInts}

\* C12: the addr and value fields of a write_register or read_register line
\* are the integers written in the line narrowed to 8 bits by truncation,
\* negative ones included, and the request is processed as one with the
\* narrowed fields; a field whose key is absent, or whose key is followed by
\* no digit, is 0.
C12_FieldsTruncated ==
    (Processed("CMD_WRITE_REGISTER") \/ Processed("CMD_READ_REGISTER")) =>
        /\ \A c \in WriteCases :
              line = c.text =>
                  /\ Narrows(c.addr, parse_result.cmd.addr)
                  /\ Narrows(c.value, parse_result.cmd.value)
                  /\ AnsweredAsWrite(parse_result.cmd.addr, parse_result.cmd.value)
        /\ \A c \in ReadCases :
              line = c.text =>
                  /\ Narrows(c.addr, parse_result.cmd.addr)
                  /\ response = DataLine(0)
        /\ ~HasKey(line, KEY_ADDR) => parse_result.cmd.addr = 0
        /\ ~HasKey(line, KEY_VALUE) => parse_result.cmd.value = 0
        /\ line \in {REQ_WRITE_NO_DIGIT, REQ_READ_NO_DIGIT} =>
              parse_result.cmd.addr = 0 /\ parse_result.cmd.value = 0

\* addr 302 and value -1 are written as register 46 and value 255
C12_Witness ==
    /\ Processed("CMD_WRITE_REGISTER")
    /\ line = WriteRegisterLine(302, 0 - 1)
    /\ parse_result.cmd.addr = 46
    /\ parse_result.cmd.value = 255
    /\ response = ACK_LINE
    /\ hw = <<[fn |-> "furi_hal_subghz_load_registers",
               data |-> <<46, 255, 0, 0>>]>>

\* the messages of the program's error responses
ErrorMessages ==
    {"Invalid JSON", "Write failed", "Bulk write failed", "Unknown command"}

ErrorLine(code, msg) ==
    "{\"type\":\"error\",\"code\":" \o DecStr(code) \o ",\"msg\":\"" \o msg \o "\"}"

\* the data lines; the error lines with one of the codes 2, 3 and 4
DataLines == {DataLine(v) : v \in 0 .. 255}

ReservedErrorLines ==
    {ErrorLine(code, msg) : code \in {2, 3, 4}, msg \in ErrorMessages}

\* C13: every response sent is the ack line, a data line, or an error line
\* with code 1 or code 5; no error line with code 2, 3 or 4 is ever sent,
\* and no command of type Unknown reaches the switch of the dispatcher.
C13_OnlyCodes1And5 ==
    /\ n_sent > 0 =>
          /\ tx = <<response, "\n">>
          /\ \/ response = ACK_LINE
             \/ \E msg \in ErrorMessages :
                   response \in {ErrorLine(1, msg), ErrorLine(5, msg)}
             \/ response \in DataLines
    /\ response \notin ReservedErrorLines
    /\ parse_result.ok => parse_result.cmd.type # "CMD_UNKNOWN"

\* a bulk write with an invalid pair in the middle: an error with code 5
C13_Witness ==
    /\ pc = "loop"
    /\ line = REQ_BULK_BAD
    /\ response = ErrorLine(5, "Bulk write failed")
    /\ tx = <<response, "\n">>

-----------------------------------------------------------------------------
(* Claims about the application loop *)

\* the response is an ack or a data line
IsSuccessLine(r) == r = ACK_LINE \/ \E v \in 0 .. 255 : r = DataLine(v)

\* a step that is one whole app_process_command call
ProcessStep == pc = "process" /\ pc' = "loop"

\* C14: the counter starts at 0; a processed line adds exactly 1 to it when
\* it is answered with an ack or a data line and leaves it unchanged when it
\* is answered with an error line; no other step changes it.  The counter is
\* therefore the number of lines answered with an ack or a data line, and it
\* never decreases.
C14_CounterCountsSuccesses ==
    /\ commands_processed = 0
    /\ [][IF ProcessStep
          THEN /\ n_sent' = n_sent + 1
               /\ commands_processed' =
                      IF IsSuccessLine(response')
                      THEN commands_processed + 1
                      ELSE commands_processed
          ELSE commands_processed' = commands_processed]_vars

\* a line answered with an ack, then a line answered with an error: the
\* counter is 1 after two responses
C14_Witness ==
    /\ pc = "loop"
    /\ n_sent = 2
    /\ delivered = <<REQ_PING, REQ_NOT_JSON>>
    /\ response = INVALID_JSON_LINE
    /\ commands_processed = 1

\* C15 (as claimed): the Command parsed from a line is a function of that line
\* alone, whatever was received before it and whatever lies behind it in
\* memory; and the same write_register request sent twice in succession is
\* answered with the ack line both times.
C15_CommandFromLineAlone ==
    /\ (pc = "loop" /\ n_sent > 0) =>
          /\ parse_result.ok =
                 protocol_parse_command(Mem(line, <<>>), long_bits).ok
          /\ parse_result.cmd =
                 protocol_parse_command(Mem(line, <<>>), long_bits).cmd
    /\ (pc = "loop" /\ delivered = <<REQ_WRITE_15_200, REQ_WRITE_15_200>>
                    /\ n_sent = 2) =>
          /\ response = ACK_LINE
          /\ commands_processed = 2

\* the responses sent so far are the lines delivered so far, less the one
\* being processed; the last send was one encoder output, then one LF
Alternating ==
    /\ n_sent = IF pc = "process" THEN Len(delivered) - 1 ELSE Len(delivered)
    /\ n_sent > 0 => tx = <<response, "\n">>

\* C16: every delivered line is answered with exactly one response line (one
\* encoder output, then one LF) before the next line is received; a command
\* in flight can only go on to send its response, also after running has
\* been set to false: no step leaves it without the response being sent.
C16_RequestsAndResponsesAlternate ==
    /\ Alternating
    /\ [][Alternating']_vars
    /\ [][(pc = "process" /\ pc' # "process") =>
             /\ n_sent' = n_sent + 1
             /\ tx' = <<response', "\n">>
             /\ delivered' = delivered]_vars
    /\ [][(pc = "process" /\ pc' = "process") =>
             /\ running /\ ~running'
             /\ UNCHANGED <<n_sent, tx, delivered, line>>]_vars
    /\ [][Len(delivered') > Len(delivered) =>
             /\ n_sent = Len(delivered)
             /\ Len(delivered') = Len(delivered) + 1]_vars

\* the application has stopped after two lines and two responses
C16_Witness ==
    /\ pc = "stopped"
    /\ ~running
    /\ Len(delivered) = 2
    /\ n_sent = 2
    /\ tx = <<response, "\n">>

-----------------------------------------------------------------------------
(* Claims about uart_receive_line calls *)

NotTerminator(c) == ~IsTerminator(c)

\* the bytes the transport hands over in this step
NewBytes == SubSeq(fed', Len(fed) + 1, Len(fed'))

\* the step in which the call in progress returns true, returns false
ReturnsTrue == pc = "poll" /\ pc' # "poll" /\ ret' = "true"
ReturnsFalse == pc = "poll" /\ pc' # "poll" /\ ret' = "false"

\* C17 (as claimed): a call returns after a bounded number of iterations (an
\* iteration that does not return happens only before the timeout has
\* elapsed and advances the elapsed time); it returns true only with a
\* complete terminated line, made of the bytes accumulated before and the
\* bytes received up to a terminator; it returns false exactly when more
\* than timeout_ms has elapsed, and then delivers nothing, leaves the output
\* string untouched and loses nothing: the accumulator keeps its bytes, and
\* they are the prefix of the next line delivered.
C17_ReturnsLineOrTimesOut ==
    /\ [][(pc = "poll" /\ pc' = "poll") =>
             /\ waited <= timeout_ms
             /\ waited' = waited + POLL_DELAY_MS]_vars
    /\ [][(pc = "poll" /\ waited > timeout_ms) => ReturnsFalse]_vars
    /\ [][ReturnsFalse =>
             /\ waited > timeout_ms
             /\ UNCHANGED <<line, delivered, line_buffer, line_pos, fed>>]_vars
    /\ [][ReturnsTrue =>
             /\ \E k \in 1 .. Len(NewBytes) :
                   /\ IsTerminator(NewBytes[k])
                   /\ line' = line_buffer \o
                              SelectSeq(SubSeq(NewBytes, 1, k - 1), NotTerminator)
             /\ IsPrefix(line_buffer, line')
             /\ delivered' = Append(delivered, line')]_vars

-----------------------------------------------------------------------------
(* Claims about the bounds of the scans and of the arrays *)

\* the pointer to the terminating NUL of the line (json[0] is pointer 1)
LineEnd == Len(line) + 1

\* C18 (as claimed): for every line, the pointer of the registers scan and
\* the pointer of the pa_table scan never go beyond the line's terminating
\* NUL.
C18_ScanStaysInLine ==
    Processed("CMD_WRITE_BULK") =>
        /\ parse_result.regs_end <= LineEnd
        /\ parse_result.pa_end <= LineEnd

\* C19 (as claimed): the accumulator position is always between 0 and 1023
\* (the NUL written at line_buffer[line_pos] is inside the buffer), and
\* every delivered line has between 1 and 1023 bytes, none of them CR or LF.
C19_AccumulatorInBounds ==
    /\ line_pos \in 0 .. (LINE_BUFFER_SIZE - 1)
    /\ line_pos = Len(line_buffer)
    /\ \A k \in 1 .. Len(delivered) :
          /\ Len(delivered[k]) \in 1 .. (LINE_BUFFER_SIZE - 1)
          /\ \A i \in 1 .. Len(delivered[k]) : ~IsTerminator(delivered[k][i])

\* C20: whatever line is processed, the register data cc1101_write_bulk
\* builds (two bytes per pair, then the two-byte terminator) fits the array
\* of 2 * 47 + 2 = 96 bytes, because the parsed bulk_count is at most 47;
\* and the PA table that is loaded has exactly 8 bytes, of which at most 8
\* come from the command.
C20_BackendArraysInBounds ==
    /\ \A i \in 1 .. Len(hw) :
          /\ hw[i].fn = "furi_hal_subghz_load_registers" =>
                Len(hw[i].data) <= 2 * MAX_BULK_REGISTERS + 2
          /\ hw[i].fn = "furi_hal_subghz_load_patable" =>
                Len(hw[i].data) = PA_TABLE_SIZE
    /\ Processed("CMD_WRITE_BULK") =>
          /\ parse_result.cmd.bulk_count <= MAX_BULK_REGISTERS
          /\ 2 * parse_result.cmd.bulk_count + 2 <= 96
          /\ parse_result.cmd.pa_table_count <= 8
          /\ be[1].ok => Len(hw[1].data) = 2 * parse_result.cmd.bulk_count + 2

\* 50 valid pairs and 9 PA entries: 96 bytes of register data, 8 PA bytes
C20_Witness ==
    /\ Processed("CMD_WRITE_BULK")
    /\ line = BulkLine(PairRun(50, 5, 0), <<1, 2, 3, 4, 5, 6, 7, 8, 9>>)
    /\ Len(hw) = 2
    /\ Len(hw[1].data) = 96
    /\ hw[2].data = <<1, 2, 3, 4, 5, 6, 7, 8>>

-----------------------------------------------------------------------------
(* Claims about the register data handed to the loader *)

\* the even offsets (counted from 0) of reg_data that hold a (0x00, 0x00) pair
ZeroPairOffsets(data) ==
    {o \in 0 .. (Len(data) - 2) :
        o % 2 = 0 /\ data[o + 1] = 0 /\ data[o + 2] = 0}

\* the pairs applied by a loader that consumes pairs until the first
\* (0x00, 0x00) pair
LoaderPairs(data) ==
    [i \in 1 .. (Least(ZeroPairOffsets(data)) \div 2) |->
        [addr |-> data[2 * i - 1], value |-> data[2 * i]]]

\* the pairs of the processed command, in parse order
CommandPairs ==
    IF parse_result.cmd.type = "CMD_WRITE_REGISTER"
    THEN <<[addr |-> parse_result.cmd.addr, value |-> parse_result.cmd.value]>>
    ELSE [i \in 1 .. parse_result.cmd.bulk_count |->
             RegAt(parse_result.cmd.bulk_regs, i)]

\* a write_register or write_bulk command whose register write succeeded
AcceptedWrite ==
    /\ Processed("CMD_WRITE_REGISTER") \/ Processed("CMD_WRITE_BULK")
    /\ Len(be) >= 1
    /\ be[1].ok

\* C21 (as claimed): for every accepted write_register or write_bulk command
\* with count pairs, the first (0x00, 0x00) pair at an even offset of the
\* register data handed to furi_hal_subghz_load_registers is the terminator
\* at offset 2 * count, so a loader that consumes pairs until the terminator
\* applies exactly the count pairs of the command, in parse order.
C21_PairArrayUnambiguous ==
    AcceptedWrite =>
        /\ hw[1].fn = "furi_hal_subghz_load_registers"
        /\ Least(ZeroPairOffsets(hw[1].data)) = 2 * Len(CommandPairs)
        /\ LoaderPairs(hw[1].data) = CommandPairs

=============================================================================
